---- MODULE Spec2Model ----
(***************************************************************************)
(* A model of src/main.py: the Instagram -> Airtable pipeline.             *)
(*                                                                         *)
(*   SpecScrape   scrape_agency_reels / scrape_competitor_reels, one       *)
(*                scraper instance run any number of times against one     *)
(*                reels table, with a clock that advances.                 *)
(*   SpecVariant  the item step of the scrapers over every bounded list    *)
(*                of video renditions.                                     *)
(*   SpecStats    one pass of calculate_and_update_account_stats over      *)
(*                every bounded listing of reels.                          *)
(*   SpecResolve  the same pass over every bounded set of field names of   *)
(*                the sample reel.                                         *)
(*   SpecNotify   passes of notify_viral_reels over one reels table.       *)
(*   SpecFrame    the aggregation pass followed by notifier passes over    *)
(*                one reels table, with the patches issued on the          *)
(*                notification checkbox.                                   *)
(*   SpecPaging   the account loop of a scraper over pages without items,  *)
(*                with fairness, for termination.                          *)
(*   SpecMain     one run of main over every set of present settings, the  *)
(*                stages reduced to the kinds of calls they issue.         *)
(*   SpecListing  one call of fetch_table_records.                         *)
(*   SpecRace     two instances of a scraper interleaved on one reels      *)
(*                table, the second reduced to its reads and writes of it. *)
(*   SpecMoved    notifier passes whose chat may be converted between the  *)
(*                probe message and a later send.                          *)
(*   SpecReady    runs of update_swarm_account_status and of               *)
(*                update_reel_account_growth_mode over one table.          *)
(*                                                                         *)
(* Time is counted in days.  An HTTP exchange is two steps where the       *)
(* request is visible to a property (the create: pc = "post"), one step    *)
(* otherwise.  A response body is revealed field by field, as the handler  *)
(* reads it: the items one at a time, the paging fields after the items.   *)
(***************************************************************************)
EXTENDS Integers, Sequences, FiniteSets, TLC

\* ------------------------------------------------------------ constants
HorizonDays == 30
NumAccounts == 2
MaxTicks == 1
MaxVersions == 3

MaxReels == 2
MaxFields == 3
MaxPasses == 2
ThresholdPct == 50
MaxPages == 8
\* records of the table a readiness check reads, and runs of the check
NumReadyRecs == 2
MaxRuns == 2
\* the thresholds posts_ready and days_ready handed to a readiness check
PostsReady == 2
DaysReady == 2

Now0 == HorizonDays + 1

Kinds == {"agency", "competitor"}
ReelIds == {"r1", "r2"}
\* Python None / a key that is absent from a JSON object.
None == "None"
\* Continuation tokens the provider may return: absent, empty, two values.
Tokens == {None, "", "A", "B"}
\* Posting timestamps: 31, 30 and 29 days before the first clock value.
TakenAts == {Now0 - 31, Now0 - 30, Now0 - 29}

\* ------------------------------------------------------------ renditions
NoHeight == 0 - 1
Heights == {NoHeight, 360, 480, 720}
Urls == {None, "u1", "u2"}
Renditions == [height : Heights, url : Urls]
EmptyVersion == [height |-> NoHeight, url |-> None]

RECURSIVE SeqsUpTo(_, _)
SeqsUpTo(S, n) ==
    IF n = 0 THEN {<<>>}
    ELSE LET shorter == SeqsUpTo(S, n - 1)
         IN  shorter \cup {Append(s, x) : s \in {t \in shorter : Len(t) = n - 1}, x \in S}

\* m.get("video_versions", []) of an item: the key may be absent.
VersionLists == [present : {TRUE}, list : SeqsUpTo(Renditions, MaxVersions)]
                  \cup {[present |-> FALSE, list |-> <<>>]}
NoVersions == [present |-> FALSE, list |-> <<>>]
TwoVersions == [present |-> TRUE,
                list |-> <<[height |-> 480, url |-> "u1"], [height |-> 720, url |-> "u2"]>>]

\* ------------------------------------------------------------ items
(* The shapes of a provider item, by the first statement of the item step  *)
(* that fails on them:                                                     *)
(*   not_mapping    item["media"] on a list/null/string    TypeError       *)
(*   no_media       item["media"], key absent              KeyError        *)
(*   media_null     m.get on null or a non-mapping         AttributeError  *)
(*   no_taken_at    m["taken_at"], key absent              KeyError        *)
(*   bad_taken_at   fromtimestamp of a non-number          TypeError       *)
(*   caption_str    cap.get on a string caption            AttributeError  *)
(*   versions_null  max(None, ...)                         TypeError       *)
MediaFaults == {"not_mapping", "no_media", "media_null"}
LateFaults == {"no_taken_at", "bad_taken_at", "caption_str", "versions_null"}
Shapes == {"ok"} \cup MediaFaults \cup LateFaults
Codes == ReelIds \cup {""}

NoItem == [shape |-> "none", code |-> "", taken_at |-> 0, vv |-> NoVersions]
Items(VV) ==
    [shape : MediaFaults, code : {""}, taken_at : {0}, vv : {NoVersions}]
      \cup [shape : {"ok"} \cup LateFaults, code : Codes, taken_at : TakenAts, vv : VV]
ScrapeItems == Items({NoVersions}) \cup Items({TwoVersions})
\* well-formed items of either Reel ID, posted inside the window
RaceItems == [shape : {"ok"}, code : ReelIds, taken_at : {Now0 - 29}, vv : {TwoVersions}]
VariantItems == [shape : {"ok"}, code : ReelIds, taken_at : {Now0 - 29}, vv : VersionLists]

NoPayload == [code |-> "", posted |-> 0, link |-> "", account |-> 0]
\* The paging fields of a page body: data.paging_info.more_available,
\* data.paging_info.max_id, the top-level max_id; paging_info may be null.
NoPage == [more |-> FALSE, paging_max |-> None, body_max |-> None, paging_ok |-> TRUE]
PageInfos == [more : BOOLEAN, paging_max : Tokens, body_max : Tokens, paging_ok : {TRUE}]
               \cup {[more |-> FALSE, paging_max |-> None, body_max |-> None, paging_ok |-> FALSE]}

VARIABLES
    kind,          \* which scraper this instance is
    reels,         \* the reels table: Reel ID -> number of records carrying it
    clock,         \* wall clock, in days
    pc,            \* the scraper's position
    escaped,       \* the exception that ended the last run, or "none"
    existing_ids,  \* the dedup set
    cutoff,
    acc,           \* index of the current account in the accounts listing
    max_id,
    first_page,    \* no page of the current account has been answered yet
    item,          \* the item of the current iteration of the item loop
    payload,       \* the record of the create request in flight
    page,          \* the paging fields of the current page, once read
    failed,        \* Reel ID -> its last create failed: "no", "this_run", "earlier_run"
    \* calculate_and_update_account_stats
    listing,       \* the reels listing read by the pass, in listing order
    sample_names,  \* the field names of the first listed reel, in order
    acct_out,      \* accounts table: account -> the aggregates last written
    r_vir,         \* reels table: listing index -> the virality last written
    s_pc,          \* the pass's position
    s_i,           \* loop index of the pass
    s_err,         \* the exception that ended the pass, or "none"
    s_failed,      \* some write of the pass failed
    today,
    vir_field,
    account_avg,
    \* notify_viral_reels
    n_vir,         \* reels table: record -> "Virality score" times 100
    n_flag,        \* reels table: record -> the notification checkbox
    n_listed,      \* the checkbox values in the listing the pass read
    n_pc,          \* the pass's position
    n_i,           \* index of the reel in the listing
    chat_id,
    video_bytes,   \* the media was fetched (and the video send has not failed)
    n_passes,      \* passes started
    n_acts,        \* record -> the calls this pass has made for it
    n_attempts,    \* record -> number of passes that attempted a delivery for it
    n_writes,      \* record -> number of successful patches of its checkbox
    flag_writes,   \* the patches issued on the checkbox field: <<record, value>>
    n_moved,       \* a send of this pass was answered 'migrated', with a replacement
    patched,       \* the patches issued on reel records: <<stage, field name>>
    \* main
    settings,      \* the names of the settings that are present
    m_pc,          \* main's position
    m_stage,       \* index of the stage in steps
    m_calls,       \* the kinds of outbound calls the stages of the run have issued
    m_log,         \* the names of the stages started, in order
    m_caught,      \* main has caught an exception of a stage
    \* fetch_table_records
    f_pc,          \* the paginator's position
    offset,
    f_pages,       \* pages requested
    all_records,   \* number of records collected
    \* a second instance of the reel scraper, working on the same reels table
    b_pc,          \* its position
    b_ids,         \* its dedup set
    b_code,        \* the Reel ID of its create request in flight, or ""
    b_created,     \* the Reel IDs it has created
    \* update_swarm_account_status, update_reel_account_growth_mode
    g_kind,        \* which of the two functions runs
    g_status,      \* record -> its status field ("" when absent)
    g_posts,       \* record -> its post count field
    g_day,         \* record -> its day field
    g_pc,          \* the function's position
    to_update,     \* the records scheduled, in listing order
    g_todo,        \* the set of records the run scheduled
    g_sent,        \* the patches the run has issued: <<record, value>>
    g_last,        \* how the last run went: "none", "ok", "failed", "raised"
    g_runs         \* runs started

scrapeVars == <<kind, reels, clock, pc, escaped, existing_ids, cutoff, acc, max_id,
                first_page, item, payload, page, failed>>
statsVars == <<listing, sample_names, acct_out, r_vir, s_pc, s_i, s_err, s_failed,
               today, vir_field, account_avg>>
notifyVars == <<n_vir, n_flag, n_listed, n_pc, n_i, chat_id, video_bytes, n_passes,
                n_acts, n_attempts, n_writes, flag_writes, n_moved, patched>>
mainVars == <<settings, m_pc, m_stage, m_calls, m_log, m_caught>>
listVars == <<f_pc, offset, f_pages, all_records>>
raceVars == <<b_pc, b_ids, b_code, b_created>>
readyVars == <<g_kind, g_status, g_posts, g_day, g_pc, to_update, g_todo, g_sent, g_last,
               g_runs>>
vars == <<scrapeVars, statsVars, notifyVars, mainVars, listVars, raceVars, readyVars>>

\* ------------------------------------------------------------ helpers
Truthy(t) == t \notin {None, ""}

\* if max_id: params["max_id"] = max_id
SentToken(t) == IF Truthy(t) THEN t ELSE None

HeightOf(v) == IF v.height = NoHeight THEN 0 ELSE v.height
UrlOf(v) == IF v.url = None THEN "" ELSE v.url
Versions(m) == IF m.vv.present THEN m.vv.list ELSE <<>>

\* Python max(iterable, key=...): the first element whose key is greatest.
RECURSIVE MaxByHeight(_, _, _)
MaxByHeight(vs, i, best) ==
    IF i > Len(vs) THEN best
    ELSE MaxByHeight(vs, i + 1, IF HeightOf(vs[i]) > HeightOf(vs[best]) THEN i ELSE best)

SelectFirst(vs) == IF vs = <<>> THEN EmptyVersion ELSE vs[1]
SelectVersion(vs) == IF vs = <<>> THEN EmptyVersion ELSE vs[MaxByHeight(vs, 2, 1)]
DownloadLink(m) == UrlOf(SelectVersion(Versions(m)))

CutoffLate(now) == now - HorizonDays + 1
Cutoff(now) == now - HorizonDays

KeepStrict(taken_at, cut) == taken_at > cut
\* not (posted < cutoff)
Keep(taken_at, cut) == ~(taken_at < cut)

IsDuplicateNever(code, ids) == FALSE
IsDuplicate(code, ids) == code \in ids

\* the token the scraper reads from the page
NewMax(k, pg) == IF k = "agency" THEN pg.body_max ELSE pg.paging_max

StopPagingOnFlagOnly(more, new_max, cur) == ~more
StopPaging(more, new_max, cur) == ~more \/ new_max = cur

\* except clauses of the item loop and of the account loop
InnerCaught == {"KeyError", "TypeError", "ValueError"}
OuterCaught(k) ==
    IF k = "agency" THEN {"HTTPError", "ConnectionError", "Timeout", "ValueError"}
    ELSE {"Timeout", "HTTPError", "ValueError"}

\* What a provider request can raise: a transport failure, an error status, a
\* body that is not JSON or whose data is no mapping (ValueError), a body that
\* is no mapping (AttributeError), items that is null (TypeError).  Only the
\* competitor scraper sets a timeout.
RequestFaults(k) ==
    {"HTTPError", "ConnectionError", "ValueError", "AttributeError", "TypeError"}
      \cup (IF k = "competitor" THEN {"Timeout"} ELSE {})
PostFaults(k) ==
    {"HTTPError", "ConnectionError"} \cup (IF k = "competitor" THEN {"Timeout"} ELSE {})

\* The first exception the item step raises on an item that got as far as
\* `stage`, or "none".
ShapeRaises(shape) ==
    CASE shape = "not_mapping" -> "TypeError"
      [] shape = "no_media" -> "KeyError"
      [] shape = "media_null" -> "AttributeError"
      [] shape = "no_taken_at" -> "KeyError"
      [] shape = "bad_taken_at" -> "TypeError"
      [] shape = "caption_str" -> "AttributeError"
      [] shape = "versions_null" -> "TypeError"
      [] OTHER -> "none"

(* The item step up to the create request: "skip" (continue), "post", or   *)
(* the exception raised.                                                   *)
ItemResult(it, ids, cut) ==
    IF it.shape \in MediaFaults THEN ShapeRaises(it.shape)
    ELSE IF it.code = "" THEN "skip"
    ELSE IF IsDuplicate(it.code, ids) THEN "skip"
    ELSE IF it.shape \in {"no_taken_at", "bad_taken_at"} THEN ShapeRaises(it.shape)
    ELSE IF ~Keep(it.taken_at, cut) THEN "skip"
    ELSE IF it.shape \in {"caption_str", "versions_null"} THEN ShapeRaises(it.shape)
    ELSE "post"

\* ------------------------------------------------------------ control
\* the failed creates of a run that has ended
Aged(f) == [id \in DOMAIN f |-> IF f[id] = "this_run" THEN "earlier_run" ELSE f[id]]

CreatedReplacing(table, code) == [table EXCEPT ![code] = 1]
\* requests.post(reels_url, json=payload): the store appends a record
Created(table, code) == [table EXCEPT ![code] = @ + 1]

SeedNothing(table) == {}
\* existing_ids = {the Reel ID of every listed record that has one}
SeedIds(table) == {id \in DOMAIN table : table[id] > 0}

ToNextAccount ==
    /\ pc' = "acct"
    /\ acc' = acc + 1
    /\ max_id' = None
    /\ first_page' = TRUE
    /\ item' = NoItem
    /\ payload' = NoPayload
    /\ page' = NoPage
    /\ UNCHANGED <<existing_ids, cutoff, escaped>>

EndRun(exc) ==
    /\ pc' = "idle"
    /\ escaped' = exc
    /\ acc' = 0
    /\ max_id' = None
    /\ first_page' = TRUE
    /\ item' = NoItem
    /\ payload' = NoPayload
    /\ page' = NoPage
    /\ existing_ids' = {}
    /\ cutoff' = 0

\* An exception reaching the try of the account loop.
RaiseInAccount(exc) ==
    IF exc \in OuterCaught(kind) THEN ToNextAccount ELSE EndRun(exc)

\* ------------------------------------------------------------ actions
Tick ==
    /\ clock < Now0 + MaxTicks
    /\ clock' = clock + 1
    /\ UNCHANGED <<kind, reels, pc, escaped, existing_ids, cutoff, acc, max_id,
                   first_page, item, payload, page, failed>>
    /\ UNCHANGED <<statsVars, notifyVars, mainVars, listVars, raceVars, readyVars>>

\* The two listings are read and the cutoff is taken, once per run.  A listing
\* that fails raises out of the scraper before anything is written: the state
\* is left as it is, so that run is no step here.
StartRun ==
    /\ pc = "idle"
    /\ existing_ids' = SeedIds(reels)
    /\ cutoff' = Cutoff(clock)
    /\ acc' = 1
    /\ pc' = "acct"
    /\ escaped' = "none"
    /\ UNCHANGED <<kind, reels, clock, max_id, first_page, item, payload, page, failed>>
    /\ UNCHANGED <<statsVars, notifyVars, mainVars, listVars, raceVars, readyVars>>

FinishRun ==
    /\ pc = "acct"
    /\ acc > NumAccounts
    /\ EndRun("none")
    /\ failed' = Aged(failed)
    /\ UNCHANGED <<kind, reels, clock>>
    /\ UNCHANGED <<statsVars, notifyVars, mainVars, listVars, raceVars, readyVars>>

BeginAccount ==
    /\ pc = "acct"
    /\ acc <= NumAccounts
    /\ \E has_username \in BOOLEAN :
         IF has_username
         THEN /\ pc' = "req"
              /\ max_id' = None
              /\ first_page' = TRUE
              /\ UNCHANGED <<acc, existing_ids, cutoff, escaped, item, payload, page>>
         ELSE ToNextAccount
    /\ UNCHANGED <<kind, reels, clock, failed>>
    /\ UNCHANGED <<statsVars, notifyVars, mainVars, listVars, raceVars, readyVars>>

\* requests.get(reels_url, params) ... items = data.get("items", [])
RequestPage ==
    /\ pc = "req"
    /\ \E out \in {"page"} \cup RequestFaults(kind) :
         IF out = "page"
         THEN /\ pc' = "items"
              /\ UNCHANGED <<escaped, existing_ids, cutoff, acc, max_id, first_page,
                             item, payload, page>>
         ELSE RaiseInAccount(out)
    /\ failed' = IF pc' = "idle" THEN Aged(failed) ELSE failed
    /\ UNCHANGED <<kind, reels, clock>>
    /\ UNCHANGED <<statsVars, notifyVars, mainVars, listVars, raceVars, readyVars>>

FetchItemFrom(S) ==
    /\ pc = "items"
    /\ \E it \in S : item' = it
    /\ pc' = "item"
    /\ UNCHANGED <<kind, reels, clock, escaped, existing_ids, cutoff, acc, max_id,
                   first_page, payload, page, failed>>
    /\ UNCHANGED <<statsVars, notifyVars, mainVars, listVars, raceVars, readyVars>>

FetchItem == FetchItemFrom(ScrapeItems)
FetchVariantItem == FetchItemFrom(VariantItems)
FetchRaceItem == FetchItemFrom(RaceItems)

ItemStep ==
    /\ pc = "item"
    /\ LET res == ItemResult(item, existing_ids, cutoff)
       IN  IF res = "post"
           THEN /\ pc' = "post"
                /\ payload' = [code |-> item.code, posted |-> item.taken_at,
                               link |-> DownloadLink(item), account |-> acc]
                /\ UNCHANGED <<escaped, existing_ids, cutoff, acc, max_id, first_page,
                               item, page>>
           ELSE IF res = "skip" \/ res \in InnerCaught
           THEN /\ pc' = "items"
                /\ item' = NoItem
                /\ UNCHANGED <<escaped, existing_ids, cutoff, acc, max_id, first_page,
                               payload, page>>
           ELSE RaiseInAccount(res)
    /\ failed' = IF pc' = "idle" THEN Aged(failed) ELSE failed
    /\ UNCHANGED <<kind, reels, clock>>
    /\ UNCHANGED <<statsVars, notifyVars, mainVars, listVars, raceVars, readyVars>>

\* r = requests.post(...); r.raise_for_status(); existing_ids.add(reel_id)
\* A create that fails stores nothing.
PostResponse ==
    /\ pc = "post"
    /\ \E out \in {"ok"} \cup PostFaults(kind) :
         IF out = "ok"
         THEN /\ reels' = Created(reels, payload.code)
              /\ existing_ids' = existing_ids \cup {payload.code}
              /\ pc' = "items"
              /\ item' = NoItem
              /\ payload' = NoPayload
              /\ failed' = [failed EXCEPT ![payload.code] = "no"]
              /\ UNCHANGED <<escaped, cutoff, acc, max_id, first_page, page>>
         ELSE /\ RaiseInAccount(out)
              /\ LET f == [failed EXCEPT ![payload.code] = "this_run"]
                 IN  failed' = IF pc' = "idle" THEN Aged(f) ELSE f
              /\ UNCHANGED reels
    /\ UNCHANGED <<kind, clock>>
    /\ UNCHANGED <<statsVars, notifyVars, mainVars, listVars, raceVars, readyVars>>

\* The item loop is over: paging = data.get("paging_info", {}) ...
EndItems ==
    /\ pc = "items"
    /\ \E pg \in PageInfos : page' = pg
    /\ pc' = "paging"
    /\ UNCHANGED <<kind, reels, clock, escaped, existing_ids, cutoff, acc, max_id,
                   first_page, item, payload, failed>>
    /\ UNCHANGED <<statsVars, notifyVars, mainVars, listVars, raceVars, readyVars>>

Paging ==
    /\ pc = "paging"
    /\ IF ~page.paging_ok
       THEN RaiseInAccount("AttributeError")
       ELSE IF StopPaging(page.more, NewMax(kind, page), max_id)
       THEN ToNextAccount
       ELSE /\ max_id' = NewMax(kind, page)
            /\ first_page' = FALSE
            /\ pc' = "req"
            /\ page' = NoPage
            /\ UNCHANGED <<escaped, existing_ids, cutoff, acc, item, payload>>
    /\ failed' = IF pc' = "idle" THEN Aged(failed) ELSE failed
    /\ UNCHANGED <<kind, reels, clock>>
    /\ UNCHANGED <<statsVars, notifyVars, mainVars, listVars, raceVars, readyVars>>

\* ------------------------------------------------------------ a second instance
(* Another process running the same scraper against the same reels table,    *)
(* reduced to the steps that read or write the table: the listing that seeds *)
(* its dedup set, the dedup test of a well-formed item inside the window,    *)
(* and the create.  A create that fails leaves the table as it is.           *)
OtherStartRun ==
    /\ b_pc = "idle"
    /\ b_ids' = SeedIds(reels)
    /\ b_pc' = "items"
    /\ UNCHANGED <<b_code, b_created>>
    /\ UNCHANGED <<scrapeVars, statsVars, notifyVars, mainVars, listVars, readyVars>>

\* if code in existing_ids: continue ... payload = {...}
OtherItemStep ==
    /\ b_pc = "items"
    /\ \E code \in ReelIds :
         /\ ~IsDuplicate(code, b_ids)
         /\ b_code' = code
    /\ b_pc' = "post"
    /\ UNCHANGED <<b_ids, b_created>>
    /\ UNCHANGED <<scrapeVars, statsVars, notifyVars, mainVars, listVars, readyVars>>

OtherPostResponse ==
    /\ b_pc = "post"
    /\ \E ok \in BOOLEAN :
         IF ok
         THEN /\ reels' = Created(reels, b_code)
              /\ b_ids' = b_ids \cup {b_code}
              /\ b_created' = b_created \cup {b_code}
         ELSE UNCHANGED <<reels, b_ids, b_created>>
    /\ b_code' = ""
    /\ b_pc' = "items"
    /\ UNCHANGED <<kind, clock, pc, escaped, existing_ids, cutoff, acc, max_id, first_page,
                   item, payload, page, failed>>
    /\ UNCHANGED <<statsVars, notifyVars, mainVars, listVars, readyVars>>

OtherFinishRun ==
    /\ b_pc = "items"
    /\ b_pc' = "idle"
    /\ b_ids' = {}
    /\ UNCHANGED <<b_code, b_created>>
    /\ UNCHANGED <<scrapeVars, statsVars, notifyVars, mainVars, listVars, readyVars>>

\* ------------------------------------------------------------ aggregation
AccountIds == 1 .. NumAccounts
\* an account reference that is in no accounts listing
UnknownAccount == 0
NoViews == 0 - 1
NoDate == 0 - 1
\* the "Account" field of a reel: absent, one listed account, an unknown one
AccountRefs == {<<>>, <<UnknownAccount>>} \cup {<<a>> : a \in AccountIds}
\* views: absent, 1 or 3; posting dates: absent, today or 3 days ago
ReelRecs == [accts : AccountRefs, views : {NoViews, 1, 3},
             date : {NoDate, Now0, Now0 - 3}]
FixedReel == [accts |-> <<1>>, views |-> 3, date |-> Now0]

\* A field name is a sequence of words; the word "Virality" stands for an
\* occurrence of that substring.
DefaultVirField == <<"Virality", "score">>
\* the checkbox field, "<moon> Virality notification"
FlagField == <<"Virality", "notification">>
\* a score field whose name carries a prefix, "<emoji> Virality score"
TargetVirField == <<"target", "Virality", "score">>
\* the fields a scraper sets when it creates a reel record
ReelIdField == <<"Reel", "ID">>
DateField == <<"Date", "of", "posting">>
AccountField == <<"Account">>
CreatedFields == {ReelIdField, DateField, AccountField}
FieldNames == {<<"Views">>, ReelIdField, <<"virality">>, DefaultVirField, TargetVirField}
NoRepeat(q) == \A i, j \in DOMAIN q : q[i] = q[j] => i = j
NameLists == {q \in SeqsUpTo(FieldNames, MaxFields) : NoRepeat(q)}

\* "Virality" in name
HasVirality(name) == \E i \in DOMAIN name : name[i] = "Virality"

\* for name in sample: if "Virality" in name: vir_field = name; break
RECURSIVE FirstMatch(_, _)
FirstMatch(names, i) ==
    IF i > Len(names) THEN <<>>
    ELSE IF HasVirality(names[i]) THEN names[i]
    ELSE FirstMatch(names, i + 1)

RECURSIVE LastMatch(_, _)
LastMatch(names, i) ==
    IF i > Len(names) THEN <<>>
    ELSE LET later == LastMatch(names, i + 1)
         IN  IF later # <<>> THEN later
             ELSE IF HasVirality(names[i]) THEN names[i] ELSE <<>>

ResolveLast(reel_list, names) ==
    LET found == IF reel_list # <<>> THEN LastMatch(names, 1) ELSE <<>>
    IN  IF found = <<>> THEN DefaultVirField ELSE found
ResolveAnyFirst(reel_list, names) ==
    IF reel_list # <<>> /\ names # <<>> THEN names[1] ELSE DefaultVirField
\* <<>> plays None: no field name is empty
ResolveVirField(reel_list, names) ==
    LET found == IF reel_list # <<>> THEN FirstMatch(names, 1) ELSE <<>>
    IN  IF found = <<>> THEN DefaultVirField ELSE found

\* Numbers that may be fractions are pairs num/den, den > 0 unless stated.
Zero == [num |-> 0, den |-> 1]
IsZero(q) == q.num = 0
NotWritten == [total |-> 0 - 1, p1 |-> 0, p3 |-> 0, p7 |-> 0, avg |-> Zero]
Unwritten == [num |-> 0, den |-> 0]

ViewsOf(r) == IF r.views = NoViews THEN 0 ELSE r.views

\* reels_by_account.get(acc_id, []): the listed reels naming the account
RecsOf(reel_list, a) ==
    SelectSeq(reel_list, LAMBDA r : \E k \in DOMAIN r.accts : r.accts[k] = a)

RECURSIVE SumViewsSeq(_, _)
SumViewsSeq(recs, i) ==
    IF i > Len(recs) THEN 0 ELSE ViewsOf(recs[i]) + SumViewsSeq(recs, i + 1)

\* days_old(r) = (today - date of posting).days
DaysOld(r, day) == day - r.date

\* sum(1 for r in recs if days_old(r) == 0)
CountToday(recs, day) ==
    Cardinality({i \in DOMAIN recs : DaysOld(recs[i], day) = 0})

\* sum(1 for r in recs if days_old(r) < n)
CountYounger(recs, day, n) ==
    Cardinality({i \in DOMAIN recs : DaysOld(recs[i], day) < n})

\* avg = (total_views / n_reels) if n_reels else 0
AvgViews(total, n) == IF n # 0 THEN [num |-> total, den |-> n] ELSE Zero

ViralityNoBase(views, avg) ==
    IF ~IsZero(avg) THEN [num |-> views * avg.den, den |-> avg.num] ELSE Zero
\* virality = ((views - avg) / avg) if avg else 0
Virality(views, avg) ==
    IF ~IsZero(avg) THEN [num |-> views * avg.den - avg.num, den |-> avg.num] ELSE Zero

\* what the notifier's test sees of a stored score: x < t for an integer t
\* exactly when floor(x) < t
PctFloor(q) == (100 * q.num) \div q.den

\* The store's answers to the patch of one reel's field.  The field named by
\* vir_field may be the checkbox: a typed store rejects a number for it.
PatchAnswers(field) ==
    IF field = FlagField THEN {"HTTPError", "ConnectionError"}
    ELSE {"ok", "unknown_field", "HTTPError", "ConnectionError"}

NoAvg == [num |-> 0, den |-> 0]
\* account_avg.get(accs[0], 0)
AvgOf(avgs, a) == IF a \in DOMAIN avgs /\ avgs[a] # NoAvg THEN avgs[a] ELSE Zero

\* The pass returns ("done"), or an exception leaves it from the loop it was
\* in; s_i stays at the iteration that raised.
EndPass(exc) ==
    /\ s_pc' = IF exc = "none" THEN "done" ELSE IF s_pc = "accounts" THEN "raised_in_accounts"
                ELSE "raised_in_reels"
    /\ s_err' = exc
    /\ s_i' = IF exc = "none" THEN 0 ELSE s_i

\* the two listings, the field name, the grouping, today
\* In main the aggregation stage comes before the notifier stage of the run.
StartStats ==
    /\ s_pc = "idle"
    /\ n_pc = "idle"
    /\ n_passes = 0
    /\ vir_field' = ResolveVirField(listing, sample_names)
    /\ today' = clock
    /\ account_avg' = [a \in AccountIds |-> NoAvg]
    /\ s_pc' = "accounts"
    /\ s_i' = 1
    /\ UNCHANGED <<listing, sample_names, acct_out, r_vir, s_err, s_failed>>
    /\ UNCHANGED <<scrapeVars, notifyVars, mainVars, listVars, raceVars, readyVars>>

\* One iteration of "for acc in accounts".  days_old raises KeyError on a reel
\* without a posting date; the patch is outside any try.
AccountStep ==
    /\ s_pc = "accounts"
    /\ s_i <= NumAccounts
    /\ LET recs == RecsOf(listing, s_i)
           total == SumViewsSeq(recs, 1)
           avg == AvgViews(total, Len(recs))
       IN  IF \E i \in DOMAIN recs : recs[i].date = NoDate
           THEN /\ EndPass("KeyError")
                /\ s_failed' = TRUE
                /\ UNCHANGED <<acct_out, account_avg>>
           ELSE /\ account_avg' = [account_avg EXCEPT ![s_i] = avg]
                /\ \E out \in {"ok", "HTTPError", "ConnectionError"} :
                     IF out = "ok"
                     THEN /\ acct_out' = [acct_out EXCEPT ![s_i] =
                                 [total |-> total,
                                  p1 |-> CountToday(recs, today),
                                  p3 |-> CountYounger(recs, today, 3),
                                  p7 |-> CountYounger(recs, today, 7),
                                  avg |-> avg]]
                          /\ s_i' = s_i + 1
                          /\ UNCHANGED <<s_pc, s_err, s_failed>>
                     ELSE /\ EndPass(out)
                          /\ s_failed' = TRUE
                          /\ UNCHANGED acct_out
    /\ UNCHANGED <<listing, sample_names, r_vir, today, vir_field>>
    /\ UNCHANGED <<scrapeVars, notifyVars, mainVars, listVars, raceVars, readyVars>>

AccountsDone ==
    /\ s_pc = "accounts"
    /\ s_i > NumAccounts
    /\ s_pc' = "reels"
    /\ s_i' = 1
    /\ UNCHANGED <<listing, sample_names, acct_out, r_vir, s_err, s_failed, today,
                   vir_field, account_avg>>
    /\ UNCHANGED <<scrapeVars, notifyVars, mainVars, listVars, raceVars, readyVars>>

\* One iteration of "for reel in reels".  A 422 UNKNOWN_FIELD_NAME breaks the
\* loop, another error status is logged, anything but an HTTPError escapes.
ReelStep ==
    /\ s_pc = "reels"
    /\ s_i <= Len(listing)
    /\ LET r == listing[s_i]
       IN  IF r.accts = <<>>
           THEN /\ s_i' = s_i + 1
                /\ UNCHANGED <<r_vir, s_pc, s_err, s_failed, n_vir, flag_writes, patched>>
           ELSE LET virality == Virality(ViewsOf(r), AvgOf(account_avg, r.accts[1]))
                IN  /\ patched' = patched \cup {<<"aggregator", vir_field>>}
                    /\ flag_writes' = IF vir_field = FlagField
                                       THEN flag_writes \cup {<<s_i, "number">>}
                                       ELSE flag_writes
                    /\ \E out \in PatchAnswers(vir_field) :
                         CASE out = "ok" ->
                                /\ r_vir' = [r_vir EXCEPT ![s_i] = virality]
                                /\ n_vir' = IF vir_field = DefaultVirField
                                            THEN [n_vir EXCEPT ![s_i] = PctFloor(virality)]
                                            ELSE n_vir
                                /\ s_i' = s_i + 1
                                /\ UNCHANGED <<s_pc, s_err, s_failed>>
                           [] out = "unknown_field" ->
                                /\ EndPass("none")
                                /\ s_failed' = TRUE
                                /\ UNCHANGED <<r_vir, n_vir>>
                           [] out = "HTTPError" ->
                                /\ s_i' = s_i + 1
                                /\ s_failed' = TRUE
                                /\ UNCHANGED <<r_vir, n_vir, s_pc, s_err>>
                           [] out = "ConnectionError" ->
                                /\ EndPass(out)
                                /\ s_failed' = TRUE
                                /\ UNCHANGED <<r_vir, n_vir>>
    /\ UNCHANGED <<listing, sample_names, acct_out, today, vir_field, account_avg>>
    /\ UNCHANGED <<n_flag, n_listed, n_pc, n_i, chat_id, video_bytes, n_passes, n_acts,
                   n_attempts, n_writes, n_moved>>
    /\ UNCHANGED <<scrapeVars, mainVars, listVars, raceVars, readyVars>>

ReelsDone ==
    /\ s_pc = "reels"
    /\ s_i > Len(listing)
    /\ EndPass("none")
    /\ UNCHANGED <<listing, sample_names, acct_out, r_vir, s_failed, today, vir_field,
                   account_avg>>
    /\ UNCHANGED <<scrapeVars, notifyVars, mainVars, listVars, raceVars, readyVars>>

\* ------------------------------------------------------------ notification
(* n_acts holds, per record, the calls this pass has made for it: "fetch",  *)
(* "video", "text", "patch", and "<call>_failed" for a call that failed.    *)
ReelRecIds == 1 .. MaxReels
VirPcts == {ThresholdPct - 1, ThresholdPct, ThresholdPct + 1}
ConfiguredChat == "chat"
MigratedChat == "supergroup"

SelectedIgnoringFlag(notified, vir_pct, threshold) == ~(vir_pct < threshold)
SelectedAbove(notified, vir_pct, threshold) == ~(notified \/ vir_pct <= threshold)
\* if notified or vir_pct < threshold: continue
Selected(notified, vir_pct, threshold) == ~(notified \/ vir_pct < threshold)

\* a call and, when it failed, the mark of its failure
Call(what, ok) == IF ok THEN {what} ELSE {what, what \o "_failed"}

AfterVideoToText(ok) == "text"
\* sendVideo failed: video_bytes = None, so "if not video_bytes" sends the text
AfterVideo(ok) == IF ok THEN "patch" ELSE "text"

AfterFetchToPatch(ok) == IF ok THEN "video" ELSE "patch"
\* if video_bytes: sendVideo ...   if not video_bytes: sendMessage ...
AfterFetch(ok) == IF ok THEN "video" ELSE "text"

(* Settings, the probe message of get_valid_chat_id, the two listings.  The *)
(* probe is answered ok, or with a replacement destination that accepts the *)
(* second probe; anything else ends the pass before the loop.               *)
StartNotify ==
    /\ n_pc = "idle"
    /\ s_pc \notin {"accounts", "reels"}
    /\ n_passes < MaxPasses
    /\ n_passes' = n_passes + 1
    /\ \E out \in {"ok", "migrated", "abort"} :
         IF out = "abort"
         THEN /\ n_moved' = FALSE
              /\ UNCHANGED <<n_listed, n_pc, n_i, chat_id, video_bytes, n_acts>>
         ELSE /\ chat_id' = IF out = "ok" THEN ConfiguredChat ELSE MigratedChat
              /\ n_moved' = (out = "migrated")
              /\ n_listed' = n_flag
              /\ n_acts' = [i \in ReelRecIds |-> {}]
              /\ n_i' = 1
              /\ n_pc' = "loop"
              /\ UNCHANGED video_bytes
    /\ UNCHANGED <<n_vir, n_flag, n_attempts, n_writes, flag_writes, patched>>
    /\ UNCHANGED <<scrapeVars, statsVars, mainVars, listVars, raceVars, readyVars>>

\* the head of "for idx, reel in enumerate(reels)"
Evaluate ==
    /\ n_pc = "loop"
    /\ n_i <= MaxReels
    /\ IF Selected(n_listed[n_i], n_vir[n_i], ThresholdPct)
       THEN n_pc' = "fetch" /\ UNCHANGED n_i
       ELSE n_i' = n_i + 1 /\ UNCHANGED n_pc
    /\ UNCHANGED <<n_vir, n_flag, n_listed, chat_id, video_bytes, n_passes, n_acts,
                   n_attempts, n_writes, flag_writes, n_moved, patched>>
    /\ UNCHANGED <<scrapeVars, statsVars, mainVars, listVars, raceVars, readyVars>>

\* requests.get(dl_link); any failure leaves video_bytes None
FetchMedia ==
    /\ n_pc = "fetch"
    /\ \E ok \in BOOLEAN :
         /\ n_acts' = [n_acts EXCEPT ![n_i] = @ \cup Call("fetch", ok)]
         /\ video_bytes' = ok
         /\ n_pc' = AfterFetch(ok)
    /\ UNCHANGED <<n_vir, n_flag, n_listed, n_i, chat_id, n_passes, n_attempts, n_writes,
                   flag_writes, n_moved, patched>>
    /\ UNCHANGED <<scrapeVars, statsVars, mainVars, listVars, raceVars, readyVars>>

\* if video_bytes: sendVideo; a failure resets video_bytes
SendVideo ==
    /\ n_pc = "video"
    /\ n_attempts' = [n_attempts EXCEPT ![n_i] = @ + 1]
    /\ \E ok \in BOOLEAN :
         /\ n_acts' = [n_acts EXCEPT ![n_i] = @ \cup Call("video", ok)]
         /\ video_bytes' = ok
         /\ n_pc' = AfterVideo(ok)
    /\ UNCHANGED <<n_vir, n_flag, n_listed, n_i, chat_id, n_passes, n_writes, flag_writes,
                   n_moved, patched>>
    /\ UNCHANGED <<scrapeVars, statsVars, mainVars, listVars, raceVars, readyVars>>

\* if not video_bytes: sendMessage with the expired-link marker; its failure is logged
SendText ==
    /\ n_pc = "text"
    /\ \E ok \in BOOLEAN : n_acts' = [n_acts EXCEPT ![n_i] = @ \cup Call("text", ok)]
    /\ n_attempts' = [n_attempts EXCEPT ![n_i] =
                         IF "video" \in n_acts[n_i] THEN @ ELSE @ + 1]
    /\ n_pc' = "patch"
    /\ UNCHANGED <<n_vir, n_flag, n_listed, n_i, chat_id, video_bytes, n_passes, n_writes,
                   flag_writes, n_moved, patched>>
    /\ UNCHANGED <<scrapeVars, statsVars, mainVars, listVars, raceVars, readyVars>>

(* sendVideo answered 400 with parameters.migrate_to_chat_id: raise_for_status *)
(* raises, the except clause logs it and resets video_bytes; chat_id stays.    *)
SendVideoMoved ==
    /\ n_pc = "video"
    /\ n_attempts' = [n_attempts EXCEPT ![n_i] = @ + 1]
    /\ n_acts' = [n_acts EXCEPT ![n_i] = @ \cup Call("video", FALSE)]
    /\ video_bytes' = FALSE
    /\ n_pc' = AfterVideo(FALSE)
    /\ n_moved' = TRUE
    /\ UNCHANGED <<n_vir, n_flag, n_listed, n_i, chat_id, n_passes, n_writes, flag_writes,
                   patched>>
    /\ UNCHANGED <<scrapeVars, statsVars, mainVars, listVars, raceVars, readyVars>>

\* sendMessage answered the same way: logged, chat_id stays
SendTextMoved ==
    /\ n_pc = "text"
    /\ n_acts' = [n_acts EXCEPT ![n_i] = @ \cup Call("text", FALSE)]
    /\ n_attempts' = [n_attempts EXCEPT ![n_i] =
                         IF "video" \in n_acts[n_i] THEN @ ELSE @ + 1]
    /\ n_pc' = "patch"
    /\ n_moved' = TRUE
    /\ UNCHANGED <<n_vir, n_flag, n_listed, n_i, chat_id, video_bytes, n_passes, n_writes,
                   flag_writes, patched>>
    /\ UNCHANGED <<scrapeVars, statsVars, mainVars, listVars, raceVars, readyVars>>

\* the patch of the checkbox; its failure is logged and the loop goes on
PatchFlag ==
    /\ n_pc = "patch"
    /\ \E ok \in BOOLEAN :
         /\ n_acts' = [n_acts EXCEPT ![n_i] = @ \cup Call("patch", ok)]
         /\ flag_writes' = flag_writes \cup {<<n_i, "true">>}
         /\ patched' = patched \cup {<<"notifier", FlagField>>}
         /\ IF ok
            THEN /\ n_flag' = [n_flag EXCEPT ![n_i] = TRUE]
                 /\ n_writes' = [n_writes EXCEPT ![n_i] = @ + 1]
            ELSE UNCHANGED <<n_flag, n_writes>>
    /\ n_i' = n_i + 1
    /\ n_pc' = "loop"
    /\ video_bytes' = FALSE
    /\ UNCHANGED <<n_vir, n_listed, chat_id, n_passes, n_attempts, n_moved>>
    /\ UNCHANGED <<scrapeVars, statsVars, mainVars, listVars, raceVars, readyVars>>

EndNotify ==
    /\ n_pc = "loop"
    /\ n_i > MaxReels
    /\ n_pc' = "idle"
    /\ n_i' = 0
    /\ UNCHANGED <<n_vir, n_flag, n_listed, chat_id, video_bytes, n_passes, n_acts,
                   n_attempts, n_writes, flag_writes, n_moved, patched>>
    /\ UNCHANGED <<scrapeVars, statsVars, mainVars, listVars, raceVars, readyVars>>

\* ------------------------------------------------------------ main
\* the two environment variables of load_config and the rows of the settings table
StoreCredentials == {"AIRTABLE_API_KEY", "AIRTABLE_BASE_ID"}
AllSettings ==
    StoreCredentials \cup
      {"RAPIDAPI_KEY", "VIRALITY_PERCENTAGE_TO_AVG", "TELEGRAM_BOT_API_KEY",
       "TELEGRAM_GROUP_ID", "WHEN_SWARM_ACCOUNT_READY_POSTS",
       "WHEN_SWARM_ACCOUNT_READY_DAYS", "WHEN_REEL_ACCOUNT_READY_POSTS",
       "WHEN_REEL_ACCOUNT_READY_DAY"}

\* steps, in list order
Stages ==
    <<"Fetch agency accounts DF", "Update agency account stats", "Scrape agency reels",
      "Calc & update account stats", "Update competitor accounts",
      "Scrape competitor reels", "Update SWARM post count", "Update SWARM status",
      "Update growth mode", "Notify viral reels">>

\* The settings a stage reads before its first outbound call; a missing row
\* raises IndexError from .iat[0].
StageNeeds(name) ==
    CASE name = "Update SWARM status" ->
           {"WHEN_SWARM_ACCOUNT_READY_POSTS", "WHEN_SWARM_ACCOUNT_READY_DAYS"}
      [] name = "Update growth mode" ->
           {"WHEN_REEL_ACCOUNT_READY_POSTS", "WHEN_REEL_ACCOUNT_READY_DAY"}
      [] name = "Notify viral reels" ->
           {"VIRALITY_PERCENTAGE_TO_AVG", "TELEGRAM_BOT_API_KEY", "TELEGRAM_GROUP_ID"}
      [] OTHER -> {}

\* The kinds of outbound calls a stage makes besides reading store listings.
StageCalls(name) ==
    CASE name = "Fetch agency accounts DF" -> {}
      [] name \in {"Calc & update account stats", "Update SWARM status",
                   "Update growth mode"} -> {"store_write"}
      [] name = "Notify viral reels" -> {"message", "store_write"}
      [] OTHER -> {"provider", "store_write"}

\* cfg = load_config(): a missing variable raises RuntimeError out of main
LoadConfig ==
    /\ m_pc = "start"
    /\ m_pc' = IF StoreCredentials \subseteq settings THEN "settings" ELSE "exit"
    /\ UNCHANGED <<settings, m_stage, m_calls, m_log, m_caught>>
    /\ UNCHANGED <<scrapeVars, statsVars, notifyVars, listVars, raceVars, readyVars>>

\* the settings table is fetched; a failure is logged and main returns
FetchSettings ==
    /\ m_pc = "settings"
    /\ \E ok \in BOOLEAN : m_pc' = IF ok THEN "key" ELSE "exit"
    /\ UNCHANGED <<settings, m_stage, m_calls, m_log, m_caught>>
    /\ UNCHANGED <<scrapeVars, statsVars, notifyVars, listVars, raceVars, readyVars>>

\* rapidapi_key = ... .iat[0]; a missing row is logged and main returns
ReadProviderKey ==
    /\ m_pc = "key"
    /\ IF "RAPIDAPI_KEY" \in settings
       THEN m_pc' = "stages" /\ m_stage' = 1
       ELSE m_pc' = "exit" /\ UNCHANGED m_stage
    /\ UNCHANGED <<settings, m_calls, m_log, m_caught>>
    /\ UNCHANGED <<scrapeVars, statsVars, notifyVars, listVars, raceVars, readyVars>>

AfterStageStopOnRaise(raised) == IF raised THEN "exit" ELSE "stages"
\* try: func() ... except Exception: logging.exception(...): the loop goes on
AfterStage(raised) == "stages"

\* The head of one iteration of "for name, func in steps": func is called.
BeginStage ==
    /\ m_pc = "stages"
    /\ m_stage <= Len(Stages)
    /\ m_pc' = "in_stage"
    /\ m_log' = Append(m_log, Stages[m_stage])
    /\ UNCHANGED <<settings, m_stage, m_calls, m_caught>>
    /\ UNCHANGED <<scrapeVars, statsVars, notifyVars, listVars, raceVars, readyVars>>

(* The stage runs: it reads the settings it needs, then makes some of its   *)
(* calls and returns or raises; whatever it raises is caught by main.       *)
RunStage ==
    /\ m_pc = "in_stage"
    /\ \E raised \in BOOLEAN :
         /\ IF StageNeeds(Stages[m_stage]) \subseteq settings
            THEN \E calls \in SUBSET StageCalls(Stages[m_stage]) :
                   m_calls' = m_calls \cup calls
            ELSE raised /\ UNCHANGED m_calls
         /\ m_caught' = (m_caught \/ raised)
         /\ m_pc' = AfterStage(raised)
    /\ m_stage' = m_stage + 1
    /\ UNCHANGED <<settings, m_log>>
    /\ UNCHANGED <<scrapeVars, statsVars, notifyVars, listVars, raceVars, readyVars>>

FinishMain ==
    /\ m_pc = "stages"
    /\ m_stage > Len(Stages)
    /\ m_pc' = "exit"
    /\ UNCHANGED <<settings, m_stage, m_calls, m_log, m_caught>>
    /\ UNCHANGED <<scrapeVars, statsVars, notifyVars, listVars, raceVars, readyVars>>

\* ------------------------------------------------------------ store listing
\* offset = None
StartListing ==
    /\ f_pc = "idle"
    /\ f_pc' = "request"
    /\ offset' = None
    /\ f_pages' = 0
    /\ all_records' = 0
    /\ UNCHANGED <<scrapeVars, statsVars, notifyVars, mainVars, raceVars, readyVars>>

\* offset = data.get("offset"); if not offset: break
ListingGoesOn(returned) == Truthy(returned)

(* One iteration of "while True": the request carries the offset when it is *)
(* truthy; the page's records are collected; the returned offset decides.   *)
ListPage ==
    /\ f_pc = "request"
    /\ f_pages < MaxPages
    /\ f_pages' = f_pages + 1
    /\ \E out \in {"page", "HTTPError", "ConnectionError", "ValueError"} :
         IF out = "page"
         THEN \E n \in {0, 1}, returned \in Tokens :
                /\ all_records' = all_records + n
                /\ offset' = returned
                /\ f_pc' = IF ListingGoesOn(returned)
                           THEN "request" ELSE "done"
         ELSE /\ f_pc' = "raised"
              /\ UNCHANGED <<offset, all_records>>
    /\ UNCHANGED <<scrapeVars, statsVars, notifyVars, mainVars, raceVars, readyVars>>

\* ------------------------------------------------------------ readiness
(* update_swarm_account_status on the SWARM table ("Status", "Post count",   *)
(* "Day") and update_reel_account_growth_mode on the agency accounts         *)
(* ("Account Status", "Posts", "Day").                                       *)
ReadyRecIds == 1 .. NumReadyRecs
ReadyKinds == {"swarm", "growth"}
NoField == 0 - 1
TargetStatus(k) == IF k = "swarm" THEN "READY" ELSE "Growth mode"
\* a status field: absent, another option, the target
Statuses(k) == {"", "Warming", TargetStatus(k)}
Elems(q) == {q[i] : i \in DOMAIN q}

\* f.get("Post count", 0), f.get("Day", 0)
FieldOr0(v) == IF v = NoField THEN 0 ELSE v

ReadyStrict(k, status, posts, day) ==
    /\ status # TargetStatus(k)
    /\ FieldOr0(posts) > PostsReady
    /\ FieldOr0(day) >= DaysReady
\* if status == target: continue;  if posts >= posts_ready and day >= days_ready
Ready(k, status, posts, day) ==
    /\ status # TargetStatus(k)
    /\ FieldOr0(posts) >= PostsReady
    /\ FieldOr0(day) >= DaysReady

\* for rec in records: ... to_update.append(...)
RECURSIVE Scheduled(_, _, _, _, _)
Scheduled(k, status, posts, day, r) ==
    IF r > NumReadyRecs THEN <<>>
    ELSE (IF Ready(k, status[r], posts[r], day[r]) THEN <<r>> ELSE <<>>)
           \o Scheduled(k, status, posts, day, r + 1)

(* The listing and the loop that fills to_update.  A listing that fails      *)
(* raises out of the function; with nothing to update the function returns.  *)
StartReady ==
    /\ g_pc = "idle"
    /\ g_runs < MaxRuns
    /\ g_runs' = g_runs + 1
    /\ g_sent' = {}
    /\ \E listed \in BOOLEAN :
         IF listed
         THEN LET sched == Scheduled(g_kind, g_status, g_posts, g_day, 1)
              IN  /\ to_update' = sched
                  /\ g_todo' = Elems(sched)
                  /\ g_last' = "ok"
                  /\ g_pc' = IF sched = <<>> THEN "idle" ELSE "patching"
         ELSE /\ to_update' = <<>>
              /\ g_todo' = {}
              /\ g_last' = "raised"
              /\ g_pc' = "idle"
    /\ UNCHANGED <<g_kind, g_status, g_posts, g_day>>
    /\ UNCHANGED <<scrapeVars, statsVars, notifyVars, mainVars, listVars, raceVars>>

\* one PATCH carrying every scheduled record; raise_for_status is not caught
PatchSwarm ==
    /\ g_kind = "swarm"
    /\ g_pc = "patching"
    /\ g_sent' = g_sent \cup {<<r, "READY">> : r \in Elems(to_update)}
    /\ \E ok \in BOOLEAN :
         IF ok
         THEN /\ g_status' = [r \in ReadyRecIds |->
                                 IF r \in Elems(to_update) THEN "READY" ELSE g_status[r]]
              /\ UNCHANGED g_last
         ELSE /\ g_last' = "raised"
              /\ UNCHANGED g_status
    /\ to_update' = <<>>
    /\ g_pc' = "idle"
    /\ UNCHANGED <<g_kind, g_posts, g_day, g_todo, g_runs>>
    /\ UNCHANGED <<scrapeVars, statsVars, notifyVars, mainVars, listVars, raceVars>>

(* One iteration of "for rid in to_update": a PATCH of one record.  An       *)
(* HTTPError is logged and the loop goes on; another exception escapes.      *)
PatchGrowth ==
    /\ g_kind = "growth"
    /\ g_pc = "patching"
    /\ LET rid == Head(to_update)
       IN  /\ g_sent' = g_sent \cup {<<rid, "Growth mode">>}
           /\ \E out \in {"ok", "HTTPError", "ConnectionError"} :
                CASE out = "ok" ->
                       /\ g_status' = [g_status EXCEPT ![rid] = "Growth mode"]
                       /\ to_update' = Tail(to_update)
                       /\ g_pc' = IF Tail(to_update) = <<>> THEN "idle" ELSE "patching"
                       /\ UNCHANGED g_last
                  [] out = "HTTPError" ->
                       /\ g_last' = "failed"
                       /\ to_update' = Tail(to_update)
                       /\ g_pc' = IF Tail(to_update) = <<>> THEN "idle" ELSE "patching"
                       /\ UNCHANGED g_status
                  [] out = "ConnectionError" ->
                       /\ g_last' = "raised"
                       /\ to_update' = <<>>
                       /\ g_pc' = "idle"
                       /\ UNCHANGED g_status
    /\ UNCHANGED <<g_kind, g_posts, g_day, g_todo, g_runs>>
    /\ UNCHANGED <<scrapeVars, statsVars, notifyVars, mainVars, listVars, raceVars>>

\* ------------------------------------------------------------ specifications
RaceIdle ==
    /\ b_pc = "idle"
    /\ b_ids = {}
    /\ b_code = ""
    /\ b_created = {}

ReadyIdle ==
    /\ g_kind = "swarm"
    /\ g_status = [r \in ReadyRecIds |-> ""]
    /\ g_posts = [r \in ReadyRecIds |-> NoField]
    /\ g_day = [r \in ReadyRecIds |-> NoField]
    /\ g_pc = "idle"
    /\ to_update = <<>>
    /\ g_todo = {}
    /\ g_sent = {}
    /\ g_last = "none"
    /\ g_runs = 0

MainIdle ==
    /\ settings = AllSettings
    /\ m_pc = "start"
    /\ m_stage = 0
    /\ m_calls = {}
    /\ m_log = <<>>
    /\ m_caught = FALSE

ListIdle ==
    /\ f_pc = "idle"
    /\ offset = None
    /\ f_pages = 0
    /\ all_records = 0

StatsIdle ==
    /\ listing = <<>>
    /\ sample_names = <<>>
    /\ acct_out = [a \in AccountIds |-> NotWritten]
    /\ r_vir = [i \in 1 .. MaxReels |-> Unwritten]
    /\ s_pc = "idle"
    /\ s_i = 0
    /\ s_err = "none"
    /\ s_failed = FALSE
    /\ today = 0
    /\ vir_field = <<>>
    /\ account_avg = [a \in AccountIds |-> NoAvg]

NotifyIdle ==
    /\ n_vir = [i \in ReelRecIds |-> 0]
    /\ n_flag = [i \in ReelRecIds |-> FALSE]
    /\ n_listed = [i \in ReelRecIds |-> FALSE]
    /\ n_pc = "idle"
    /\ n_i = 0
    /\ chat_id = ConfiguredChat
    /\ video_bytes = FALSE
    /\ n_passes = 0
    /\ n_acts = [i \in ReelRecIds |-> {}]
    /\ n_attempts = [i \in ReelRecIds |-> 0]
    /\ n_writes = [i \in ReelRecIds |-> 0]
    /\ flag_writes = {}
    /\ n_moved = FALSE
    /\ patched = {}

ScrapeIdle ==
    /\ kind = "agency"
    /\ reels = [id \in ReelIds |-> 0]
    /\ clock = Now0
    /\ pc = "idle"
    /\ escaped = "none"
    /\ existing_ids = {}
    /\ cutoff = 0
    /\ acc = 0
    /\ max_id = None
    /\ first_page = TRUE
    /\ item = NoItem
    /\ payload = NoPayload
    /\ page = NoPage
    /\ failed = [id \in ReelIds |-> "no"]

InitScrape ==
    /\ RaceIdle
    /\ ReadyIdle
    /\ StatsIdle
    /\ NotifyIdle
    /\ MainIdle
    /\ ListIdle
    /\ kind \in Kinds
    /\ reels \in [ReelIds -> {0, 1}]
    /\ clock = Now0
    /\ pc = "idle"
    /\ escaped = "none"
    /\ existing_ids = {}
    /\ cutoff = 0
    /\ acc = 0
    /\ max_id = None
    /\ first_page = TRUE
    /\ item = NoItem
    /\ payload = NoPayload
    /\ page = NoPage
    /\ failed = [id \in ReelIds |-> "no"]

NextScrape ==
    \/ Tick
    \/ StartRun
    \/ FinishRun
    \/ BeginAccount
    \/ RequestPage
    \/ FetchItem
    \/ ItemStep
    \/ PostResponse
    \/ EndItems
    \/ Paging

SpecScrape == InitScrape /\ [][NextScrape]_vars

\* A run on an empty table that has received the first page of its first account.
InitVariant ==
    /\ RaceIdle
    /\ ReadyIdle
    /\ StatsIdle
    /\ NotifyIdle
    /\ MainIdle
    /\ ListIdle
    /\ kind \in Kinds
    /\ reels = [id \in ReelIds |-> 0]
    /\ clock = Now0
    /\ pc = "items"
    /\ escaped = "none"
    /\ existing_ids = {}
    /\ cutoff = Cutoff(Now0)
    /\ acc = 1
    /\ max_id = None
    /\ first_page = TRUE
    /\ item = NoItem
    /\ payload = NoPayload
    /\ page = NoPage
    /\ failed = [id \in ReelIds |-> "no"]

NextVariant ==
    \/ FetchVariantItem
    \/ ItemStep
    \/ PostResponse

SpecVariant == InitVariant /\ [][NextVariant]_vars

NextStats ==
    \/ StartStats
    \/ AccountStep
    \/ AccountsDone
    \/ ReelStep
    \/ ReelsDone

\* Every listing of at most MaxReels reels.
InitStats ==
    /\ RaceIdle
    /\ ReadyIdle
    /\ ScrapeIdle
    /\ NotifyIdle
    /\ MainIdle
    /\ ListIdle
    /\ listing \in SeqsUpTo(ReelRecs, MaxReels)
    /\ sample_names = IF listing = <<>> THEN <<>> ELSE <<<<"Views">>, DefaultVirField>>
    /\ acct_out = [a \in AccountIds |-> NotWritten]
    /\ r_vir = [i \in 1 .. MaxReels |-> Unwritten]
    /\ s_pc = "idle"
    /\ s_i = 0
    /\ s_err = "none"
    /\ s_failed = FALSE
    /\ today = 0
    /\ vir_field = <<>>
    /\ account_avg = [a \in AccountIds |-> NoAvg]

SpecStats == InitStats /\ [][NextStats]_vars

\* Every list of field names of the sample, over an empty and a one-reel listing.
InitResolve ==
    /\ RaceIdle
    /\ ReadyIdle
    /\ ScrapeIdle
    /\ NotifyIdle
    /\ MainIdle
    /\ ListIdle
    /\ listing \in {<<>>, <<FixedReel>>}
    /\ sample_names \in NameLists
    /\ listing = <<>> => sample_names = <<>>
    /\ acct_out = [a \in AccountIds |-> NotWritten]
    /\ r_vir = [i \in 1 .. MaxReels |-> Unwritten]
    /\ s_pc = "idle"
    /\ s_i = 0
    /\ s_err = "none"
    /\ s_failed = FALSE
    /\ today = 0
    /\ vir_field = <<>>
    /\ account_avg = [a \in AccountIds |-> NoAvg]

SpecResolve == InitResolve /\ [][NextStats]_vars

NextNotify ==
    \/ StartNotify
    \/ Evaluate
    \/ FetchMedia
    \/ SendVideo
    \/ SendText
    \/ PatchFlag
    \/ EndNotify

\* Any scores around the threshold, any checkboxes already ticked.
InitNotify ==
    /\ RaceIdle
    /\ ReadyIdle
    /\ ScrapeIdle
    /\ StatsIdle
    /\ MainIdle
    /\ ListIdle
    /\ n_vir \in [ReelRecIds -> VirPcts]
    /\ n_flag \in [ReelRecIds -> BOOLEAN]
    /\ n_listed = [i \in ReelRecIds |-> FALSE]
    /\ n_pc = "idle"
    /\ n_i = 0
    /\ chat_id = ConfiguredChat
    /\ video_bytes = FALSE
    /\ n_passes = 0
    /\ n_acts = [i \in ReelRecIds |-> {}]
    /\ n_attempts = [i \in ReelRecIds |-> 0]
    /\ n_writes = [i \in ReelRecIds |-> 0]
    /\ flag_writes = {}
    /\ n_moved = FALSE
    /\ patched = {}

SpecNotify == InitNotify /\ [][NextNotify]_vars

(* One run of main from the aggregation stage on, over a reels table of     *)
(* MaxReels reels of account 1 whose checkboxes may be ticked by earlier    *)
(* runs.  The store leaves an unticked checkbox out of a record, so the     *)
(* first reel's field names hold the checkbox exactly when it is ticked;    *)
(* their order is the store's.                                              *)
FrameListing ==
    [i \in 1 .. MaxReels |->
       [accts |-> <<1>>, views |-> IF i = 1 THEN 1 ELSE 3, date |-> Now0]]
ScoreFields == {DefaultVirField, TargetVirField}
FrameSamples(ticked) ==
    {q \in SeqsUpTo({ReelIdField, FlagField} \cup ScoreFields, 3) :
       /\ NoRepeat(q)
       /\ Cardinality({i \in DOMAIN q : q[i] \in ScoreFields}) = 1
       /\ (\E i \in DOMAIN q : q[i] = FlagField) <=> ticked}
\* flds.get("Virality score", 0) * 100 of a reel the aggregation has not reached
ScoreRead(names) ==
    IF \E i \in DOMAIN names : names[i] = DefaultVirField THEN ThresholdPct ELSE 0

InitFrame ==
    /\ RaceIdle
    /\ ReadyIdle
    /\ ScrapeIdle
    /\ MainIdle
    /\ ListIdle
    /\ listing = FrameListing
    /\ n_flag \in [ReelRecIds -> BOOLEAN]
    /\ sample_names \in FrameSamples(n_flag[1])
    /\ acct_out = [a \in AccountIds |-> NotWritten]
    /\ r_vir = [i \in 1 .. MaxReels |-> Unwritten]
    /\ s_pc = "idle"
    /\ s_i = 0
    /\ s_err = "none"
    /\ s_failed = FALSE
    /\ today = 0
    /\ vir_field = <<>>
    /\ account_avg = [a \in AccountIds |-> NoAvg]
    /\ n_vir = [i \in ReelRecIds |-> ScoreRead(sample_names)]
    /\ n_listed = [i \in ReelRecIds |-> FALSE]
    /\ n_pc = "idle"
    /\ n_i = 0
    /\ chat_id = ConfiguredChat
    /\ video_bytes = FALSE
    /\ n_passes = 0
    /\ n_acts = [i \in ReelRecIds |-> {}]
    /\ n_attempts = [i \in ReelRecIds |-> 0]
    /\ n_writes = [i \in ReelRecIds |-> 0]
    /\ flag_writes = {}
    /\ n_moved = FALSE
    /\ patched = {}

NextFrame ==
    \/ NextStats
    \/ NextNotify

SpecFrame == InitFrame /\ [][NextFrame]_vars

(* The account loop of one run over pages that hold no items.  Every step  *)
(* that can be taken is taken in the end: a request is answered, a loop     *)
(* that can go on goes on.                                                  *)
InitPaging ==
    /\ RaceIdle
    /\ ReadyIdle
    /\ StatsIdle
    /\ NotifyIdle
    /\ MainIdle
    /\ ListIdle
    /\ kind \in Kinds
    /\ reels = [id \in ReelIds |-> 0]
    /\ clock = Now0
    /\ pc = "acct"
    /\ escaped = "none"
    /\ existing_ids = {}
    /\ cutoff = Cutoff(Now0)
    /\ acc = 1
    /\ max_id = None
    /\ first_page = TRUE
    /\ item = NoItem
    /\ payload = NoPayload
    /\ page = NoPage
    /\ failed = [id \in ReelIds |-> "no"]

NextPaging ==
    \/ BeginAccount
    \/ RequestPage
    \/ EndItems
    \/ Paging
    \/ FinishRun

SpecPaging == InitPaging /\ [][NextPaging]_vars /\ WF_vars(NextPaging)

\* One run of main over every set of settings that are present.
InitMain ==
    /\ RaceIdle
    /\ ReadyIdle
    /\ ScrapeIdle
    /\ StatsIdle
    /\ NotifyIdle
    /\ ListIdle
    /\ settings \in SUBSET AllSettings
    /\ m_pc = "start"
    /\ m_stage = 0
    /\ m_calls = {}
    /\ m_log = <<>>
    /\ m_caught = FALSE

NextMain ==
    \/ LoadConfig
    \/ FetchSettings
    \/ ReadProviderKey
    \/ BeginStage
    \/ RunStage
    \/ FinishMain

SpecMain == InitMain /\ [][NextMain]_vars

\* One call of fetch_table_records.
InitListing ==
    /\ RaceIdle
    /\ ReadyIdle
    /\ ScrapeIdle
    /\ StatsIdle
    /\ NotifyIdle
    /\ MainIdle
    /\ ListIdle

NextListing ==
    \/ StartListing
    \/ ListPage

SpecListing == InitListing /\ [][NextListing]_vars


(* Two instances of the scraper on one reels table, the clock standing.     *)
InitRace ==
    /\ ReadyIdle
    /\ StatsIdle
    /\ NotifyIdle
    /\ MainIdle
    /\ ListIdle
    /\ b_pc = "idle"
    /\ b_ids = {}
    /\ b_code = ""
    /\ b_created = {}
    /\ kind \in Kinds
    /\ reels \in [ReelIds -> {0, 1}]
    /\ clock = Now0
    /\ pc = "idle"
    /\ escaped = "none"
    /\ existing_ids = {}
    /\ cutoff = 0
    /\ acc = 0
    /\ max_id = None
    /\ first_page = TRUE
    /\ item = NoItem
    /\ payload = NoPayload
    /\ page = NoPage
    /\ failed = [id \in ReelIds |-> "no"]

NextRace ==
    \/ StartRun
    \/ FinishRun
    \/ BeginAccount
    \/ RequestPage
    \/ FetchRaceItem
    \/ ItemStep
    \/ PostResponse
    \/ EndItems
    \/ Paging
    \/ OtherStartRun
    \/ OtherItemStep
    \/ OtherPostResponse
    \/ OtherFinishRun

SpecRace == InitRace /\ [][NextRace]_vars

(* A notifier pass whose chat may be converted while the pass runs.          *)
NextMoved ==
    \/ NextNotify
    \/ SendVideoMoved
    \/ SendTextMoved

SpecMoved == InitNotify /\ [][NextMoved]_vars

(* Runs of a readiness check over every table of NumReadyRecs records.       *)
InitReady ==
    /\ RaceIdle
    /\ ScrapeIdle
    /\ StatsIdle
    /\ NotifyIdle
    /\ MainIdle
    /\ ListIdle
    /\ g_kind \in ReadyKinds
    /\ g_status \in [ReadyRecIds -> Statuses(g_kind)]
    /\ g_posts \in [ReadyRecIds -> {NoField, PostsReady - 1, PostsReady}]
    /\ g_day \in [ReadyRecIds -> {DaysReady - 1, DaysReady + 1}]
    /\ g_pc = "idle"
    /\ to_update = <<>>
    /\ g_todo = {}
    /\ g_sent = {}
    /\ g_last = "none"
    /\ g_runs = 0

NextReady ==
    \/ StartReady
    \/ PatchSwarm
    \/ PatchGrowth

SpecReady == InitReady /\ [][NextReady]_vars

\* ------------------------------------------------------------ properties
(* C1: with a single scraper instance and a table that starts without       *)
(* duplicates, no two records of the reels table share a Reel ID after any  *)
(* step of any run, and no step of a run creates a record for an ID that is *)
(* in the run's dedup set (so none seeded at the start is created again).   *)
C1_UniqueReelIds ==
    [][ /\ \A id \in ReelIds : reels'[id] <= 1
        /\ \A id \in ReelIds :
             (pc # "idle" /\ id \in existing_ids) => reels'[id] = reels[id] ]_vars

\* A stored ID is offered again, in window, under the second account.
C1_Witness ==
    /\ pc = "item"
    /\ acc = 2
    /\ item.shape = "ok"
    /\ item.code \in existing_ids
    /\ reels[item.code] = 1
    /\ item.taken_at >= cutoff

(* C4: when the token a page returns equals the token the request carried,  *)
(* or equals the token the previous page of the account returned, the       *)
(* account's loop ends with that page: the next step is the next account,   *)
(* not another request.                                                     *)
C4_SameTokenStops ==
    [][ ( /\ pc = "paging"
          /\ pc' # "paging"
          /\ page.paging_ok
          /\ \/ Truthy(max_id) /\ NewMax(kind, page) = SentToken(max_id)
             \/ ~first_page /\ NewMax(kind, page) = max_id )
        => (pc' = "acct" /\ acc' = acc + 1) ]_vars

\* The provider says more is available and returns the token it was sent.
C4_Witness ==
    /\ pc = "paging"
    /\ page.paging_ok
    /\ page.more
    /\ Truthy(max_id)
    /\ NewMax(kind, page) = max_id

(* C5: the cutoff is the clock at the start of the run minus 30 days, and   *)
(* the item step submits a create exactly for the well-formed items with a  *)
(* non-empty ID outside the dedup set and a posting timestamp >= cutoff.    *)
C5_WindowFilter ==
    [][ /\ (pc = "idle" /\ pc' = "acct") => cutoff' = clock - HorizonDays
        /\ (pc = "item" /\ pc' # "item") =>
             (pc' = "post" <=> /\ item.shape = "ok"
                               /\ item.code # ""
                               /\ item.code \notin existing_ids
                               /\ item.taken_at >= cutoff) ]_vars

\* A create is in flight for an item posted exactly 30 days before the run began.
C5_Witness ==
    /\ pc = "post"
    /\ payload.posted = cutoff
    /\ payload.posted = Now0 - 30

(* C6 as stated: at the moment a create is submitted the posting timestamp  *)
(* is not older than the clock of that moment minus 30 days, and the cutoff *)
(* in force when an account's scrape starts is the clock of that moment     *)
(* minus 30 days.                                                           *)
C6_WindowAtIngestion ==
    [][ /\ (pc = "item" /\ pc' = "post") => payload'.posted >= clock' - HorizonDays
        /\ (pc = "acct" /\ pc' = "req") => cutoff' = clock' - HorizonDays ]_vars

(* C6 amended: the cutoff is taken once per run, before the account loop,   *)
(* as the clock of that moment minus 30 days; it is the same for every      *)
(* account of the run; and a create is submitted only for a posting         *)
(* timestamp that is not older than that cutoff, which by then may lie      *)
(* before the current clock minus 30 days.                                  *)
C6_WindowAtRunStart ==
    [][ /\ (pc = "idle" /\ pc' = "acct") => cutoff' = clock - HorizonDays
        /\ (pc # "idle" /\ pc' # "idle") => cutoff' = cutoff
        /\ (pc = "item" /\ pc' = "post") =>
             (payload'.posted >= cutoff /\ cutoff <= clock - HorizonDays) ]_vars

\* The second account's item is about to be submitted after the clock moved on:
\* it is inside the run's window and outside the window of this moment.
C6_Witness ==
    /\ pc = "item"
    /\ acc = 2
    /\ ItemResult(item, existing_ids, cutoff) = "post"
    /\ item.taken_at < clock - HorizonDays

\* link is the URL of a rendition of vs of greatest height ("" for no rendition).
IsMaxHeightLink(vs, link) ==
    IF vs = <<>> THEN link = ""
    ELSE \E i \in DOMAIN vs :
           /\ link = (IF vs[i].url = None THEN "" ELSE vs[i].url)
           /\ \A j \in DOMAIN vs :
                (IF vs[j].height = NoHeight THEN 0 ELSE vs[j].height)
                  <= (IF vs[i].height = NoHeight THEN 0 ELSE vs[i].height)

(* C9: for every list of renditions of a well-formed, new, in-window item   *)
(* the create is submitted, and its download link is the URL of a rendition *)
(* of greatest height (a missing height counting as 0), the empty string    *)
(* when the list is empty or absent.                                        *)
C9_HighestRendition ==
    [][ ( /\ pc = "item"
          /\ pc' # "item"
          /\ item.shape = "ok"
          /\ item.code \notin existing_ids
          /\ item.taken_at >= cutoff )
        => (pc' = "post" /\ IsMaxHeightLink(Versions(item), payload'.link)) ]_vars

\* The create in flight for renditions of heights 480, 720, 360 carries the 720 URL.
C9_Witness ==
    /\ pc = "post"
    /\ Len(item.vv.list) = 3
    /\ item.vv.list[1] = [height |-> 480, url |-> "u1"]
    /\ item.vv.list[2] = [height |-> 720, url |-> "u2"]
    /\ item.vv.list[3] = [height |-> 360, url |-> "u1"]
    /\ payload.link = "u2"

\* the listed reels whose "Account" field names account a
OwnedBy(a) ==
    {i \in DOMAIN listing : \E k \in DOMAIN listing[i].accts : listing[i].accts[k] = a}

RECURSIVE ViewsSum(_)
ViewsSum(I) ==
    IF I = {} THEN 0
    ELSE LET i == CHOOSE x \in I : TRUE
         IN  (IF listing[i].views = NoViews THEN 0 ELSE listing[i].views) + ViewsSum(I \ {i})

(* C7: after a pass without a failure every account holds total = the sum   *)
(* of its reels' views and avg = total / count (0 without reels), and every *)
(* reel with an owning account holds virality = (views - avg) / avg for the *)
(* avg written to that account, 0 when that avg is 0 or the account is not  *)
(* listed; every written quotient has a non-zero divisor.                   *)
C7_Aggregates ==
    (s_pc = "done" /\ ~s_failed) =>
      /\ \A a \in AccountIds :
           LET I == OwnedBy(a)
               o == acct_out[a]
           IN  /\ o.total = ViewsSum(I)
               /\ o.avg.den # 0
               /\ IF I = {} THEN o.avg.num = 0
                  ELSE o.avg.num * Cardinality(I) = o.total * o.avg.den
      /\ \A i \in DOMAIN listing :
           listing[i].accts # <<>> =>
             LET a == listing[i].accts[1]
                 A == IF a \in AccountIds THEN acct_out[a].avg ELSE Zero
                 w == IF listing[i].views = NoViews THEN 0 ELSE listing[i].views
                 v == r_vir[i]
             IN  /\ v.den # 0
                 /\ IF A.num = 0 THEN v.num = 0
                    ELSE v.num * A.num = (w * A.den - A.num) * v.den

\* Views 1 and 3 under account 1: total 4, avg 2, the second reel's virality 1/2;
\* account 2 has no reel and gets avg 0.
C7_Witness ==
    /\ s_pc = "done"
    /\ ~s_failed
    /\ Len(listing) = 2
    /\ listing[1].accts = <<1>> /\ listing[1].views = 1
    /\ listing[2].accts = <<1>> /\ listing[2].views = 3
    /\ acct_out[1].total = 4
    /\ acct_out[1].avg.num = 2 * acct_out[1].avg.den
    /\ r_vir[2].num * 2 = r_vir[2].den
    /\ r_vir[2].num > 0
    /\ acct_out[2].avg.num = 0

\* the ages in days of account a's listed reels that have a posting date
AgesOf(a) ==
    [i \in {j \in OwnedBy(a) : listing[j].date # NoDate} |-> today - listing[i].date]

(* C8 as stated: when a pass has ended, every listed account, but the one  *)
(* whose own patch was rejected, holds Posts (1D), (3D), (7D) equal to the *)
(* number of its listed reels with days_old = 0, < 3, < 7, also when a     *)
(* reel has no posting date or another account's patch was rejected.       *)
C8_PostCounts ==
    s_pc \in {"done", "raised_in_accounts", "raised_in_reels"} =>
      \A a \in AccountIds :
        \/ s_pc = "raised_in_accounts" /\ s_err # "KeyError" /\ s_i = a
        \/ /\ acct_out[a] # NotWritten
           /\ acct_out[a].p1 = Cardinality({i \in DOMAIN AgesOf(a) : AgesOf(a)[i] = 0})
           /\ acct_out[a].p3 = Cardinality({i \in DOMAIN AgesOf(a) : AgesOf(a)[i] < 3})
           /\ acct_out[a].p7 = Cardinality({i \in DOMAIN AgesOf(a) : AgesOf(a)[i] < 7})

(* C10: once resolved, the virality field name is the first field name of  *)
(* the sample reel that contains "Virality", and the default name when the *)
(* listing is empty or no field name of the sample contains it.            *)
C10_VirFieldResolved ==
    s_pc # "idle" =>
      IF listing = <<>> \/ \A i \in DOMAIN sample_names : ~HasVirality(sample_names[i])
      THEN vir_field = DefaultVirField
      ELSE \E i \in DOMAIN sample_names :
             /\ HasVirality(sample_names[i])
             /\ vir_field = sample_names[i]
             /\ \A j \in 1 .. (i - 1) : ~HasVirality(sample_names[j])

\* Two field names contain "Virality"; the first of them was taken.
C10_Witness ==
    /\ s_pc = "accounts"
    /\ sample_names = <<<<"Views">>, <<"target", "Virality", "score">>, DefaultVirField>>
    /\ vir_field = <<"target", "Virality", "score">>

(* C2: a reel whose checkbox is ticked in the listing a pass read gets no   *)
(* media fetch, no sendVideo, no sendMessage and no checkbox patch in that  *)
(* pass, whatever its score; and no reel's checkbox is written with success *)
(* more than once over all passes.                                          *)
C2_NotifiedSkipped ==
    \A i \in ReelRecIds :
      /\ n_listed[i] => n_acts[i] = {}
      /\ n_writes[i] <= 1

\* A later pass has gone past a reel above the threshold that an earlier pass ticked.
C2_Witness ==
    /\ n_pc = "loop"
    /\ n_passes = 2
    /\ n_i = 2
    /\ n_listed[1]
    /\ n_vir[1] > ThresholdPct
    /\ n_writes[1] = 1
    /\ n_attempts[1] = 1

(* C3 as stated: whatever the outcomes of the media fetch, the sends and    *)
(* the checkbox patch, a reel gets a delivery attempt in at most one pass.  *)
C3_NotifiedOnce ==
    \A i \in ReelRecIds : n_attempts[i] <= 1

(* C11: in a pass that got past the probe, the head of the loop selects a   *)
(* reel exactly when its checkbox is unset in the listing and its score     *)
(* times 100 is >= the threshold, equality included; a reel below the       *)
(* threshold gets no call in any pass: no fetch, no send, no checkbox       *)
(* patch.                                                                   *)
C11_SelectedIffAtThreshold ==
    [][ /\ (n_pc = "loop" /\ n_i <= MaxReels /\ n_pc' # "idle") =>
             IF ~n_listed[n_i] /\ n_vir[n_i] >= ThresholdPct
             THEN n_pc' = "fetch" /\ n_i' = n_i
             ELSE n_pc' = "loop" /\ n_i' = n_i + 1 /\ n_acts'[n_i] = {}
        /\ \A i \in ReelRecIds :
             n_vir[i] < ThresholdPct =>
               (n_acts'[i] = {} /\ n_attempts'[i] = 0 /\ n_writes'[i] = 0) ]_vars

\* The first reel is just below the threshold and was passed over; the second
\* sits exactly on the threshold and has been selected.
C11_Witness ==
    /\ n_pc = "fetch"
    /\ n_i = 2
    /\ n_vir[1] = ThresholdPct - 1
    /\ ~n_listed[1]
    /\ n_acts[1] = {}
    /\ n_vir[2] = ThresholdPct
    /\ ~n_listed[2]

(* C12: the checkbox patch of a reel is issued only after a video or a text *)
(* send was attempted for it in the pass; and once the sends of a selected  *)
(* reel are over, whether they succeeded or failed, the next call is the    *)
(* checkbox patch.                                                          *)
C12_PatchAfterDelivery ==
    [][ /\ \A i \in ReelRecIds :
             "patch" \in n_acts'[i] => ("video" \in n_acts[i] \/ "text" \in n_acts[i])
        /\ n_pc = "fetch" => n_pc' \in {"video", "text"}
        /\ n_pc = "video" => n_pc' \in {"text", "patch"}
        /\ n_pc = "text" => n_pc' = "patch"
        /\ n_pc = "patch" => ("patch" \in n_acts'[n_i] /\ n_pc' = "loop") ]_vars

\* The video send and the text send both failed, and the checkbox was ticked.
C12_Witness ==
    \E i \in ReelRecIds :
      /\ {"video_failed", "text_failed", "patch"} \subseteq n_acts[i]
      /\ "patch_failed" \notin n_acts[i]
      /\ n_flag[i]
      /\ n_writes[i] = 1

C14_MalformedItemSkipped ==
    [][ (pc = "item" /\ item.shape # "ok" /\ pc' # "item")
        => (pc' = "items" /\ acc' = acc /\ escaped' = "none") ]_vars

(* C15 as stated: when a provider request of an account or its create      *)
(* fails with a timeout, a connection failure, an error status or a body    *)
(* that is no JSON, the scraper goes on with the next account of the        *)
(* listing and no such exception leaves the loop.  (A body of a wrong shape *)
(* raises AttributeError or TypeError; those are set aside here.)           *)
C15_FailureEndsAccountOnly ==
    [][ ( \/ pc = "req" /\ pc' # "req" /\ pc' # "items"
          \/ pc = "post" /\ pc' # "post" /\ reels' = reels )
        => \/ pc' = "acct" /\ acc' = acc + 1 /\ escaped' = "none"
           \/ escaped' \in {"AttributeError", "TypeError"} ]_vars

C18_EchoedOffsetStops ==
    [][ ( /\ f_pc = "request"
          /\ f_pages' = f_pages + 1
          /\ f_pc' # "raised"
          /\ Truthy(offset)
          /\ offset' = offset )
        => f_pc' = "done" ]_vars

(* C17: during a run the dedup set is the set of IDs in the store, that is  *)
(* the IDs seeded from the listing plus the IDs whose create the store has  *)
(* confirmed in this run; the set grows only by the ID of a confirmed       *)
(* create, at the moment it is confirmed; a failed create leaves it as it   *)
(* is; and an ID whose create failed in an earlier run, offered again       *)
(* well-formed and in window, is submitted again and stored when the store  *)
(* confirms.                                                                *)
C17_DedupSetFollowsStore ==
    [][ /\ pc' # "idle" => existing_ids' = {id \in ReelIds : reels'[id] > 0}
        /\ (pc # "idle" /\ pc' # "idle") =>
             existing_ids' =
               IF pc = "post" /\ reels'[payload.code] = reels[payload.code] + 1
               THEN existing_ids \cup {payload.code}
               ELSE existing_ids
        /\ ( /\ pc = "item"
             /\ pc' # "item"
             /\ item.shape = "ok"
             /\ item.code \in ReelIds
             /\ failed[item.code] = "earlier_run"
             /\ item.taken_at >= cutoff )
           => (pc' = "post" /\ payload'.code = item.code)
        /\ (pc = "post" /\ reels' # reels) =>
             (reels'[payload.code] = 1 /\ failed'[payload.code] = "no") ]_vars

\* The create of an ID failed in an earlier run; this run has submitted it again
\* while the other ID, created meanwhile, is in the dedup set.
C17_Witness ==
    /\ pc = "post"
    /\ failed[payload.code] = "earlier_run"
    /\ payload.code \notin existing_ids
    /\ existing_ids # {}

(* C19 as stated: when a page says more_available = true and carries in     *)
(* paging_info a max_id that differs from the token of the request, either  *)
(* scraper requests the next page with that max_id; when a page says        *)
(* more_available = false the account's loop ends.                          *)
C19_FollowsPagingToken ==
    [][ /\ ( /\ pc = "paging"
             /\ pc' # "paging"
             /\ page.paging_ok
             /\ page.more
             /\ Truthy(page.paging_max)
             /\ page.paging_max # max_id )
           => (pc' = "req" /\ acc' = acc /\ max_id' = page.paging_max)
        /\ (pc = "paging" /\ pc' # "paging" /\ page.paging_ok /\ ~page.more)
           => (pc' = "acct" /\ acc' = acc + 1) ]_vars

(* C20 as stated: an account's pagination loop ends in the end, whatever    *)
(* tokens the pages carry.                                                  *)
C20_PagingTerminates ==
    (pc = "req") ~> (pc \in {"acct", "idle"})

(* C21: in a pass, the video send is attempted for a reel only after its    *)
(* media fetch succeeded; the text message with the expired-link marker is  *)
(* attempted only after the fetch or the video send failed; and by the time *)
(* the checkbox patch is issued it has been attempted whenever one of them  *)
(* failed.  After a fetch and a video send that both succeeded no text is   *)
(* sent.                                                                    *)
C21_TextIffRichFailed ==
    \A i \in ReelRecIds :
      /\ "video" \in n_acts[i] => ("fetch" \in n_acts[i] /\ "fetch_failed" \notin n_acts[i])
      /\ "text" \in n_acts[i] =>
           ("fetch_failed" \in n_acts[i] \/ "video_failed" \in n_acts[i])
      /\ ("patch" \in n_acts[i] \/ (n_pc = "patch" /\ n_i = i)) =>
           (("fetch_failed" \in n_acts[i] \/ "video_failed" \in n_acts[i])
              => "text" \in n_acts[i])

\* In one pass the first reel went out as a video and got no text; the second
\* reel's fetch failed and it got the text without a video send.
C21_Witness ==
    /\ n_acts[1] = {"fetch", "video", "patch"}
    /\ {"fetch", "fetch_failed", "text", "patch"} \subseteq n_acts[2]
    /\ "video" \notin n_acts[2]

(* C22 as stated: in the per-record pass a reel's write that fails (error   *)
(* status, timeout, connection failure) is followed by the next reel; the   *)
(* pass ends early only by the break on a rejected field name, and never    *)
(* by an exception.                                                         *)
C22_ReelFailureContinues ==
    [][ (s_pc = "reels" /\ s_i <= Len(listing))
        => \/ s_pc' = "reels" /\ s_i' = s_i + 1
           \/ s_pc' = "done" /\ s_err' = "none" /\ s_failed' ]_vars

(* C23 as stated: in the per-account pass a patch of an account's           *)
(* aggregates that is rejected or fails is followed by the next account,    *)
(* so that the other accounts are written and the per-record pass runs.     *)
(* (A reel without a posting date raises KeyError before the patch; that    *)
(* case is set aside here.)                                                 *)
C23_AccountFailureContinues ==
    [][ (s_pc = "accounts" /\ s_i <= NumAccounts)
        => \/ s_pc' = "accounts" /\ s_i' = s_i + 1
           \/ s_err' = "KeyError" ]_vars

(* C24: the stages are started one at a time in the order of the list, a    *)
(* stage only when no stage is running; a stage that has run, whether it    *)
(* returned or raised, is followed by the next one; and a run that got to   *)
(* the stage loop ends only after every stage of the list has been started. *)
C24_StagesInOrder ==
    [][ /\ \A k \in DOMAIN m_log' : m_log'[k] = Stages[k]
        /\ m_log' # m_log =>
             /\ m_pc = "stages"
             /\ m_pc' = "in_stage"
             /\ Len(m_log) = m_stage - 1
             /\ m_log' = Append(m_log, Stages[m_stage])
        /\ m_pc = "in_stage" => (m_pc' = "stages" /\ m_stage' = m_stage + 1)
        /\ (m_pc = "stages" /\ m_pc' = "exit") => m_log = Stages ]_vars

\* A readiness threshold is missing, so the SWARM status stage raised; the run
\* is over, every stage was started and the notifier stage sent a message.
C24_Witness ==
    /\ m_pc = "exit"
    /\ m_log = Stages
    /\ m_caught
    /\ "WHEN_SWARM_ACCOUNT_READY_POSTS" \notin settings
    /\ "message" \in m_calls

(* C25: with two instances of the scraper on one reels table, creates are   *)
(* append-only: no step lowers the number of records of a Reel ID, a step   *)
(* adds at most one, and a create that is confirmed adds exactly one.  A    *)
(* Reel ID comes to have two records only with a create of the second       *)
(* instance (never with one instance alone), and never more than two.       *)
C25_RaceAppendOnly ==
    [][ \A id \in ReelIds :
          /\ reels'[id] >= reels[id]
          /\ reels'[id] <= reels[id] + 1
          /\ reels'[id] <= 2
          /\ reels'[id] > 1 => id \in b_created'
          /\ (pc = "post" /\ pc' = "items" /\ payload.code = id)
                => reels'[id] = reels[id] + 1 ]_vars

\* both instances have created a record with the same Reel ID
C25_Witness ==
    \E id \in ReelIds :
       /\ reels[id] = 2
       /\ id \in b_created
       /\ id \in existing_ids
       /\ id \in b_ids

(* C26: once a send of the pass, the probe or a later video or text send,   *)
(* has been answered 'migrated' with a replacement destination, every send  *)
(* the pass issues afterwards is addressed to the replacement.              *)
C26_LaterSendsReaddressed ==
    [][ (n_moved /\ n_pc \in {"video", "text"}) => chat_id = MigratedChat ]_vars

(* C27: when the notifier evaluates a reel whose virality the aggregation   *)
(* pass of the run has written, the score it compares with the threshold is *)
(* that value, whatever the name of the score field in the store.           *)
C27_NotifierReadsAggregated ==
    (n_pc = "loop" /\ n_i \in ReelRecIds /\ r_vir[n_i] # Unwritten)
        => n_vir[n_i] = PctFloor(r_vir[n_i])

(* C28: every patch issued on a reel record names a field other than the    *)
(* Reel ID, the posting date and the account reference: the aggregator's    *)
(* names the virality field the pass resolved, the notifier's the checkbox. *)
C28_CreatedFieldsKept ==
    \A w \in patched :
       /\ w[2] \notin CreatedFields
       /\ w[1] = "aggregator" => w[2] = vir_field
       /\ w[1] = "notifier" => w[2] = FlagField

\* both stages have patched reels whose first field is the Reel ID
C28_Witness ==
    /\ sample_names[1] = ReelIdField
    /\ <<"aggregator", DefaultVirField>> \in patched
    /\ <<"notifier", FlagField>> \in patched
    /\ r_vir[MaxReels] # Unwritten
    /\ n_writes[MaxReels] = 1

====
